---- MODULE Spec2Model ----
(***************************************************************************)
(* Model of src/mbr.c (rpi-boot): read_mbr, which scans the first sector   *)
(* of a parent block device for a legacy partition table and builds one    *)
(* mbr_block_dev per active slot, and mbr_read, the read method of those   *)
(* devices.                                                                *)
(*                                                                         *)
(* A behaviour follows one call of read_mbr (the caller passes the         *)
(* addresses of two fresh locals for the results) and then any number of   *)
(* reads on the devices that call returned.                                *)
(*                                                                         *)
(* 32-bit unsigned values are pairs of 16-bit halves [hi, lo], added with  *)
(* carry, so that the width of uint32_t is kept.  Characters are their     *)
(* ASCII codes and strings are sequences of them.                          *)
(***************************************************************************)
EXTENDS Integers, Sequences, FiniteSets, TLC

VARIABLES
    op,          \* the operation that ran last: "init", "read_mbr", "mbr_read"
    parent,      \* read_mbr's argument `parent`
    blk_ret,     \* what block_read returned at line 70 (0 when not called)
    block_0,     \* the buffer after block_read, from offset 0x1BE on (the
                 \* bytes before the partition table are never looked at)
    ret,         \* the return value of the last operation
    out_set,     \* which of *partitions, *part_count read_mbr has written
    partitions,  \* *partitions: the array `parts`, its first cur_p elements
    part_count,  \* *part_count
    made,        \* the mbr_block_dev objects read_mbr allocated
    calls,       \* the external calls the last operation made, in order
    rd           \* the arguments of the last mbr_read call

vars == <<op, parent, blk_ret, block_0, ret, out_set, partitions, part_count,
          made, calls, rd>>

-----------------------------------------------------------------------------
(* Bounds of the model *)

\* parent device names of length 0..MaxNameLen are tried
MaxNameLen == 3
\* outcomes 0 and MaxGarbageLen of a strlen that starts beyond the string
MaxGarbageLen == 4

(* Program constants *)

SectorSize == 512
NumSlots == 4
PartBlockSize == 512
TableOffset == 446
EntrySize == 16
TypeOffset == 4
StartOffset == 8
BlocksOffset == 12
SigOffset == 510
SigByte0 == 85
SigByte1 == 170
Underscore == 95
DigitZero == 48
Half == 65536

-----------------------------------------------------------------------------
(* 32-bit unsigned words *)

W(h, l) == [hi |-> h, lo |-> l]

\* a sum that sticks at 0xFFFFFFFF instead of wrapping
Add32Saturating(a, b) ==
    LET l == a.lo + b.lo
        h == a.hi + b.hi + (l \div Half)
    IN  IF h >= Half THEN W(Half - 1, Half - 1) ELSE W(h, l % Half)

\* uint32_t + uint32_t, src/mbr.c:189
Add32(a, b) ==
    LET l == a.lo + b.lo
        h == a.hi + b.hi + (l \div Half)
    IN  W(h % Half, l % Half)

\* util.h read_word: the little-endian 32-bit value at buf[off..off+3]
read_word(buf, off) ==
    W(buf[off + 2] + 256 * buf[off + 3], buf[off] + 256 * buf[off + 1])

-----------------------------------------------------------------------------
(* The parent device *)

NULL == [addr |-> 0, device_name |-> <<>>, block_size |-> 0]

NameChars == <<115, 100, 97, 49, 50, 51, 52, 53>>

ParentDev(len, bs) ==
    [addr |-> 1, device_name |-> SubSeq(NameChars, 1, len), block_size |-> bs]

\* read_mbr's k-th argument: a 512-byte-block device under each name, the
\* longest first, then a device with 1024-byte blocks, then no device
ParentArg(k) ==
    IF k <= MaxNameLen THEN ParentDev(MaxNameLen - k, 512)
    ELSE IF k = MaxNameLen + 1 THEN ParentDev(MaxNameLen, 1024)
    ELSE NULL

ParentArgs == {ParentArg(k) : k \in 0..(MaxNameLen + 2)}

GarbageLens == {0, MaxGarbageLen}

\* strlen(s + off): defined when s + off still points into the string
\* (s[Len(s)] is the terminating NUL); beyond it the read is out of bounds
\* and g stands for whatever length the stray bytes happen to give.
strlen_at(s, off, g) == IF off <= Len(s) THEN Len(s) - off ELSE g

-----------------------------------------------------------------------------
(* The first sector of the parent device *)

\* byte n (0 = least significant) of a word as stored on disk
ByteOf(w, n) ==
    CASE n = 0 -> w.lo % 256
      [] n = 1 -> w.lo \div 256
      [] n = 2 -> w.hi % 256
      [] n = 3 -> w.hi \div 256

\* A sector with signature bytes sig and, in table entry i, type byte
\* types[i+1], start word starts[i+1] and count word counts[i+1].  Boot code is zero, the
\* status byte of every entry is 0x80; neither is looked at by read_mbr.
MkSector(sig, types, starts, counts) ==
    [o \in 0..(SectorSize - 1) |->
        IF o = SigOffset THEN sig[1]
        ELSE IF o = SigOffset + 1 THEN sig[2]
        ELSE IF o < TableOffset THEN 0
        ELSE LET f == (o - TableOffset) % EntrySize
                 i == (o - TableOffset) \div EntrySize
             IN  IF f = 0 THEN 128
                 ELSE IF f = TypeOffset THEN types[i + 1]
                 ELSE IF f >= StartOffset /\ f < BlocksOffset
                      THEN ByteOf(starts[i + 1], f - StartOffset)
                 ELSE IF f >= BlocksOffset THEN ByteOf(counts[i + 1], f - BlocksOffset)
                 ELSE 0]

FatTypes == {1, 4, 6, 11, 12, 14, 17, 20, 27, 28, 30}
Ext2Types == {131}
\* type codes tried in the first slot: every code of the switch, the
\* inactive code 0 and codes the switch does not list
WideTypes == FatTypes \cup Ext2Types \cup {0, 5, 130, 255}
\* type codes tried together in the other three slots
FewTypes == {<<0, 0, 0>>, <<131, 0, 0>>, <<0, 12, 7>>, <<131, 12, 7>>}

TypeTuples == {<<a>> \o t : a \in WideTypes, t \in FewTypes}

Signatures == {<<85, 170>>, <<85, 0>>, <<0, 170>>, <<170, 85>>}

\* 2048, 0xFFFFF800, 0x00010000, 0xFFFFFFFF
StartWords == <<W(0, 2048), W(65535, 63488), W(1, 0), W(65535, 65535)>>
\* 204800, 1, 0, 0xFFFFFFFF
CountWords == <<W(3, 8192), W(0, 1), W(0, 0), W(65535, 65535)>>

Sectors ==
    {MkSector(sig, t, StartWords, CountWords) :
        sig \in Signatures, t \in TypeTuples}

\* the buffer when block_read did not deliver a sector
NoData == <<>>

\* results of block_read(parent, block_0, 512, 0)
BlockReadResults == {-5, -1, 0, 511, 512}

-----------------------------------------------------------------------------
(* read_mbr *)

Call(fn, arg, buf, size, block) ==
    [fn |-> fn, arg |-> arg, buf |-> buf, size |-> size, block |-> block]

NoWord == W(0, 0)

\* a check of the first signature byte alone
SigOKFirstByte(b) == ~(b[SigOffset] # SigByte0)

\* src/mbr.c:84, negated: both signature bytes are in place
SigOK(b) == ~((b[SigOffset] # SigByte0) \/ (b[SigOffset + 1] # SigByte1))

\* src/mbr.c:110-111
IsActive(b, i) == b[(TableOffset + i * EntrySize) + TypeOffset] # 0

\* a switch without case 0x11
InitializerNo11(part_id) ==
    IF part_id \in FatTypes \ {17} THEN "fat_init"
    ELSE IF part_id \in Ext2Types THEN "ext2_init"
    ELSE "none"

\* src/mbr.c:143-162: the initializer the switch selects
Initializer(part_id) ==
    IF part_id \in FatTypes THEN "fat_init"
    ELSE IF part_id \in Ext2Types THEN "ext2_init"
    ELSE "none"

\* the struct fs an initializer leaves in d->bd.fs for slot i's device
FsOf(i) == 100 + i

\* src/mbr.c:118: the size passed to malloc for dev_name
NameAlloc(name, g) == strlen_at(name, 2, g)

\* src/mbr.c:119-122: number of bytes stored through dev_name
NameWritten(name) == Len(name) + 3

\* src/mbr.c:114-133: the device built for active slot i.  When more bytes
\* are stored through dev_name than were allocated, the bytes beyond the
\* allocation are not the string's: they either survive (intact) or are
\* overwritten, leaving the allocated prefix.
MkDev(par, i, b, g, intact) ==
    LET p_offset == TableOffset + i * EntrySize
        alloc    == NameAlloc(par.device_name, g)
        written  == NameWritten(par.device_name)
        wanted   == par.device_name \o <<Underscore, DigitZero + i>>
    IN  [driver_name  |-> "mbr",
         device_name  |-> IF alloc >= written \/ intact THEN wanted
                          ELSE SubSeq(wanted, 1, alloc),
         name_alloc   |-> alloc,
         name_written |-> written,
         device_id    |-> <<i>>,
         dev_id_len   |-> 1,
         block_size   |-> PartBlockSize,
         part_no      |-> i,
         part_id      |-> b[p_offset + TypeOffset],
         start_block  |-> read_word(b, p_offset + StartOffset),
         blocks       |-> read_word(b, p_offset + BlocksOffset),
         parent       |-> par.addr,
         fs           |-> 0]

\* src/mbr.c:143-162: d after the switch; fsOut[i] says whether the
\* initializer called for slot i stores a filesystem in d->bd.fs
AfterInit(d, fsOut) ==
    IF Initializer(d.part_id) # "none" /\ fsOut[d.part_no]
    THEN [d EXCEPT !.fs = FsOf(d.part_no)]
    ELSE d

InitCalls(d) ==
    IF Initializer(d.part_id) # "none"
    THEN <<Call(Initializer(d.part_id), d.part_no, 0, 0, NoWord)>>
    ELSE <<>>

\* registering whenever an initializer was called
RegisterAfterAnyInit(d) == Initializer(d.part_id) # "none"

\* src/mbr.c:164
ShouldRegister(d) == d.fs # 0

RegisterCalls(d) ==
    IF ShouldRegister(d) THEN <<Call("vfs_register", d.fs, 0, 0, NoWord)>>
    ELSE <<>>

\* src/mbr.c:108-167: the loop over the table, from slot i on
RECURSIVE Loop(_, _, _, _, _, _, _)
Loop(i, par, b, fsOut, g, intact, acc) ==
    IF i >= NumSlots THEN acc
    ELSE IF IsActive(b, i)
    THEN LET d0 == MkDev(par, i, b, g, intact)
             d  == AfterInit(d0, fsOut)
         IN  Loop(i + 1, par, b, fsOut, g, intact,
                  [parts |-> Append(acc.parts, d),
                   calls |-> acc.calls \o InitCalls(d0) \o RegisterCalls(d)])
    ELSE Loop(i + 1, par, b, fsOut, g, intact, acc)

\* a distinct value at each failing return
FailureRetBySite(site, r) ==
    CASE site = "invalid_parent" -> -2
      [] site = "read_error" -> r
      [] site = "short_read" -> -3
      [] site = "no_signature" -> -4

\* the value returned at each failing return: line 61, 74, 80, 88
FailureRet(site, r) == IF site = "read_error" THEN r ELSE -1

Failed(site, r, c, b) ==
    [ret |-> FailureRet(site, r), out_set |-> {}, partitions |-> <<>>,
     part_count |-> 0, made |-> <<>>, calls |-> c, block_0 |-> b]

\* src/mbr.c:52-174
ReadMbr(par, r, sec, fsOut, g, intact) ==
    LET rdcall == <<Call("block_read", par.addr, 0, SectorSize, NoWord)>>
    IN  IF par = NULL THEN Failed("invalid_parent", r, <<>>, NoData)
        ELSE IF r < 0 THEN Failed("read_error", r, rdcall, NoData)
        ELSE IF r # SectorSize THEN Failed("short_read", r, rdcall, NoData)
        ELSE IF ~SigOK(sec) THEN Failed("no_signature", r, rdcall, sec)
        ELSE LET res == Loop(0, par, sec, fsOut, g, intact,
                             [parts |-> <<>>, calls |-> rdcall])
             IN  [ret |-> 0, out_set |-> {"partitions", "part_count"},
                  partitions |-> res.parts, part_count |-> Len(res.parts),
                  made |-> res.parts, calls |-> res.calls, block_0 |-> sec]

NoRead == [idx |-> 0, buf |-> 0, size |-> 0, starting_block |-> NoWord, pres |-> 0]

Init ==
    /\ op = "init"
    /\ parent = NULL
    /\ blk_ret = 0
    /\ block_0 = NoData
    /\ ret = 0
    /\ out_set = {}
    /\ partitions = <<>>
    /\ part_count = 0
    /\ made = <<>>
    /\ calls = <<>>
    /\ rd = NoRead

\* the part of the buffer kept in the state: table and signature
TableOf(b) ==
    IF DOMAIN b = {} THEN NoData
    ELSE [o \in TableOffset..(SectorSize - 1) |-> b[o]]

AllFail == [i \in 0..(NumSlots - 1) |-> FALSE]

\* One call read_mbr(parent, &partitions, &part_count).  The inputs are the
\* argument, what block_read returns and delivers, what the initializers
\* do, and the outcomes of the out-of-bounds accesses at lines 118-122;
\* inputs a path does not consult are pinned.
read_mbr ==
    /\ op = "init"
    /\ \E k \in 0..(MaxNameLen + 2) :
       \E par \in {ParentArg(k)} :
       \E r \in (IF par = NULL THEN {0} ELSE BlockReadResults) :
       \E sec \in (IF r = SectorSize THEN Sectors ELSE {NoData}) :
       \E fsOut \in (IF r = SectorSize /\ SigOK(sec)
                     THEN [0..(NumSlots - 1) -> BOOLEAN] ELSE {AllFail}) :
       \E g \in (IF Len(par.device_name) < 2 THEN GarbageLens ELSE {0}) :
       \E clobbered \in BOOLEAN :
          LET res == ReadMbr(par, r, sec, fsOut, g, ~clobbered)
          IN  /\ op' = "read_mbr"
              /\ parent' = par
              /\ blk_ret' = r
              /\ block_0' = TableOf(res.block_0)
              /\ ret' = res.ret
              /\ out_set' = res.out_set
              /\ partitions' = res.partitions
              /\ part_count' = res.part_count
              /\ made' = res.made
              /\ calls' = res.calls
              /\ rd' = NoRead

-----------------------------------------------------------------------------
(* mbr_read *)

\* no check of the block sizes
BlockSizeIgnored(dev, par) == TRUE

\* src/mbr.c:180, negated
BlockSizeMatches(dev, par) == ~(dev.block_size # par.block_size)

\* src/mbr.c:188-189: the block index handed to the parent
ParentBlock(dev, starting_block) == Add32(starting_block, dev.start_block)

\* a read that refuses blocks at or beyond the partition's block count
MbrReadBounded(dev, par, buf, buf_size, starting_block, pres) ==
    IF ~BlockSizeMatches(dev, par)
    THEN [ret |-> -1, calls |-> <<>>]
    ELSE IF ~(\/ starting_block.hi < dev.blocks.hi
              \/ (/\ starting_block.hi = dev.blocks.hi
                  /\ starting_block.lo < dev.blocks.lo))
    THEN [ret |-> -1, calls |-> <<>>]
    ELSE [ret |-> pres,
          calls |-> <<Call("read", par.addr, buf, buf_size,
                           ParentBlock(dev, starting_block))>>]

\* src/mbr.c:176-190; pres is what the parent's read returns if invoked
MbrRead(dev, par, buf, buf_size, starting_block, pres) ==
    IF ~BlockSizeMatches(dev, par)
    THEN [ret |-> -1, calls |-> <<>>]
    ELSE [ret |-> pres,
          calls |-> <<Call("read", par.addr, buf, buf_size,
                           ParentBlock(dev, starting_block))>>]

Buffers == {[buf |-> 4096, size |-> 1024]}
StartingBlocks == {W(0, 5), W(65535, 65535)}
ParentReadResults(size) == {-1, size}

mbr_read ==
    /\ op \in {"read_mbr", "mbr_read"}
    /\ "partitions" \in out_set
    /\ \E idx \in 1..Len(partitions) :
       \E bf \in Buffers :
       \E s \in StartingBlocks :
       \E pres \in (IF BlockSizeMatches(partitions[idx], parent)
                    THEN ParentReadResults(bf.size) ELSE {0}) :
          LET res == MbrRead(partitions[idx], parent, bf.buf, bf.size, s, pres)
          IN  /\ op' = "mbr_read"
              /\ ret' = res.ret
              /\ calls' = res.calls
              /\ rd' = [idx |-> idx, buf |-> bf.buf, size |-> bf.size,
                        starting_block |-> s, pres |-> pres]
              /\ UNCHANGED <<parent, blk_ret, block_0, out_set, partitions,
                             part_count, made>>

Next == read_mbr \/ mbr_read

Spec == Init /\ [][Next]_vars

-----------------------------------------------------------------------------
(* What the properties below read off the state *)

Slots == 0..3

\* the type byte of table entry i in the sector that was read
TypeByte(i) == block_0[446 + 16 * i + 4]

SectorRead == parent # NULL /\ blk_ret = 512

SignatureValid == block_0[510] = 85 /\ block_0[511] = 170

ActiveSlots == {i \in Slots : TypeByte(i) # 0}

\* a scan that got a sector with a valid signature has just returned
ScannedValid == op = "read_mbr" /\ SectorRead /\ SignatureValid

\* number of calls the last operation made to fn with argument arg
CallCount(fn, arg) ==
    Cardinality({j \in 1..Len(calls) : calls[j].fn = fn /\ calls[j].arg = arg})

CallsTo(fn) == {j \in 1..Len(calls) : calls[j].fn = fn}

\* the returned devices that were built for slot i
DevsOfSlot(i) == {j \in 1..Len(partitions) : partitions[j].part_no = i}

\* c is a + b modulo 2^32, on halves
IsSumMod32(a, b, c) ==
    LET carry == IF a.lo + b.lo >= 65536 THEN 1 ELSE 0
    IN  /\ (a.lo + b.lo - c.lo) % 65536 = 0
        /\ (a.hi + b.hi + carry - c.hi) % 65536 = 0
        /\ c.lo \in 0..65535 /\ c.hi \in 0..65535

\* a + b as a mathematical sum is at least 2^32
Overflows(a, b) ==
    a.hi + b.hi + (IF a.lo + b.lo >= 65536 THEN 1 ELSE 0) >= 65536

Less32(a, b) == a.hi < b.hi \/ (a.hi = b.hi /\ a.lo < b.lo)

ReadDev == partitions[rd.idx]

-----------------------------------------------------------------------------
(* C1 *)

\* C1: a read on a partition device whose block_size equals its parent's
\* makes exactly one call, the parent's read, with the same buf and
\* buf_size and block index starting_block + start_block (in 32-bit
\* arithmetic), and returns what that call returned; this is so also for
\* starting blocks at or beyond the partition's block count.
C1_ReadDelegates ==
    (op = "mbr_read" /\ ReadDev.block_size = parent.block_size) =>
        /\ Len(calls) = 1
        /\ calls[1].fn = "read"
        /\ calls[1].arg = parent.addr
        /\ calls[1].buf = rd.buf
        /\ calls[1].size = rd.size
        /\ IsSumMod32(rd.starting_block, ReadDev.start_block, calls[1].block)
        /\ ret = rd.pres

\* a delegated read of a block beyond the partition's extent that succeeded
C1_Witness ==
    /\ op = "mbr_read"
    /\ ReadDev.block_size = parent.block_size
    /\ ~Less32(rd.starting_block, ReadDev.blocks)
    /\ Len(calls) = 1
    /\ ret = rd.size

-----------------------------------------------------------------------------
(* C2 *)

\* C2: for a sector with a valid signature and k active entries read_mbr
\* returns 0 with part_count = k and k devices, one per active slot in
\* ascending slot order, each named parent name + "_" + slot digit with
\* device_id = [slot]; with k = 0 no initializer is called.
C2_ScanResult ==
    ScannedValid =>
        /\ ret = 0
        /\ out_set = {"partitions", "part_count"}
        /\ part_count = Cardinality(ActiveSlots)
        /\ Len(partitions) = part_count
        /\ \A i \in ActiveSlots : Cardinality(DevsOfSlot(i)) = 1
        /\ \A j \in 1..Len(partitions) :
              /\ partitions[j].part_no \in ActiveSlots
              /\ j > 1 => partitions[j - 1].part_no < partitions[j].part_no
              /\ partitions[j].device_name =
                    parent.device_name \o <<95, 48 + partitions[j].part_no>>
              /\ partitions[j].device_id = <<partitions[j].part_no>>
              /\ partitions[j].dev_id_len = 1
        /\ (ActiveSlots = {} =>
               CallsTo("fat_init") \cup CallsTo("ext2_init") = {})

-----------------------------------------------------------------------------
(* C3 *)

ScanFailureCase ==
    \/ parent = NULL
    \/ blk_ret < 0
    \/ blk_ret # 512
    \/ ~SignatureValid

\* C3: when read_mbr is given no parent, or block_read returns a negative
\* value or fewer than 512 bytes, or the signature bytes are not 0x55 0xAA,
\* it returns a negative value, writes neither *partitions nor *part_count,
\* constructs no device and calls none of fat_init, ext2_init, vfs_register.
C3_FailureProducesNothing ==
    (op = "read_mbr" /\ ScanFailureCase) =>
        /\ ret < 0
        /\ out_set = {}
        /\ made = <<>>
        /\ CallsTo("fat_init") \cup CallsTo("ext2_init")
              \cup CallsTo("vfs_register") = {}

\* a sector with active entries whose second signature byte is wrong
C3_Witness ==
    /\ op = "read_mbr"
    /\ SectorRead
    /\ block_0[510] = 85
    /\ block_0[511] # 170
    /\ TypeByte(0) = 131
    /\ ret < 0
    /\ made = <<>>

-----------------------------------------------------------------------------
(* C4 *)

\* C4: a read on a partition device whose block_size differs from its
\* parent's returns an error and makes no call at all.
C4_MismatchNoIO ==
    (op = "mbr_read" /\ ReadDev.block_size # parent.block_size) =>
        /\ ret < 0
        /\ calls = <<>>

C4_Witness ==
    /\ op = "mbr_read"
    /\ ReadDev.block_size # parent.block_size
    /\ ret = -1

-----------------------------------------------------------------------------
(* C5 *)

\* C5: in a successful scan, a slot whose type byte is one of 0x01 0x04
\* 0x06 0x0B 0x0C 0x0E 0x11 0x14 0x1B 0x1C 0x1E gets exactly one fat_init
\* call on its device and no ext2_init call; a slot of type 0x83 gets exactly
\* one ext2_init call and no fat_init call; a slot of any other non-zero
\* type gets neither, and its device is returned without a filesystem; an
\* inactive slot gets neither.
C5_InitializerByType ==
    (op = "read_mbr" /\ ret = 0) =>
        \A i \in Slots :
            LET t == TypeByte(i)
                nfat == CallCount("fat_init", i)
                next2 == CallCount("ext2_init", i)
            IN  /\ t \in {1, 4, 6, 11, 12, 14, 17, 20, 27, 28, 30}
                      => nfat = 1 /\ next2 = 0
                /\ t = 131 => nfat = 0 /\ next2 = 1
                /\ t \notin {0, 1, 4, 6, 11, 12, 14, 17, 20, 27, 28, 30, 131}
                      => /\ nfat = 0 /\ next2 = 0
                         /\ \E j \in DevsOfSlot(i) : partitions[j].fs = 0
                /\ t = 0 => nfat = 0 /\ next2 = 0 /\ DevsOfSlot(i) = {}

\* one scan that called fat_init and ext2_init and met a type it does not know
C5_Witness ==
    /\ op = "read_mbr"
    /\ ret = 0
    /\ TypeByte(0) = 17
    /\ CallCount("fat_init", 0) = 1
    /\ CallCount("ext2_init", 1) = 1
    /\ TypeByte(3) = 7
    /\ DevsOfSlot(3) # {}

-----------------------------------------------------------------------------
(* C6 *)

\* C6: in a scan of a valid sector every active slot's device is returned
\* and the scan returns 0, whatever the initializers did; vfs_register is
\* called once with a device's filesystem when an initializer left one in
\* it, after that initializer's call, and is not called otherwise.
C6_InitFailureAbsorbed ==
    ScannedValid =>
        /\ ret = 0
        /\ \A i \in ActiveSlots : DevsOfSlot(i) # {}
        /\ \A j \in 1..Len(partitions) :
              LET d == partitions[j]
                  inits == {n \in 1..Len(calls) :
                               /\ calls[n].fn \in {"fat_init", "ext2_init"}
                               /\ calls[n].arg = d.part_no}
                  regs == {n \in CallsTo("vfs_register") : calls[n].arg = d.fs}
              IN  IF d.fs = 0 THEN regs = {}
                  ELSE /\ Cardinality(regs) = 1
                       /\ inits # {}
                       /\ \A r \in regs : \A n \in inits : n < r
        /\ Cardinality(CallsTo("vfs_register")) =
              Cardinality({j \in 1..Len(partitions) : partitions[j].fs # 0})

\* slot 0's ext2_init failed, slot 1's succeeded and was registered
C6_Witness ==
    /\ op = "read_mbr"
    /\ ret = 0
    /\ TypeByte(0) = 131
    /\ TypeByte(1) = 131
    /\ CallCount("ext2_init", 0) = 1
    /\ partitions[1].fs = 0
    /\ partitions[2].fs # 0
    /\ CallCount("vfs_register", partitions[2].fs) = 1

-----------------------------------------------------------------------------
(* C7 *)

\* C7: every device read_mbr constructs has its parent's block_size, so a
\* read issued after the scan does not fail the block-size check.
C7_BlockSizeInherited ==
    /\ \A j \in 1..Len(made) : made[j].block_size = parent.block_size
    /\ (op = "mbr_read" => (calls # <<>> /\ ret = rd.pres))

-----------------------------------------------------------------------------
(* C8 *)

NoSignatureCase == op = "read_mbr" /\ SectorRead /\ ~SignatureValid

\* what read_mbr returns when block_read fails or there is no parent
OtherFailureRets ==
    {ReadMbr(p, r, NoData, AllFail, 0, TRUE).ret :
        p \in ParentArgs, r \in BlockReadResults \ {512}}

-----------------------------------------------------------------------------
(* C9 *)

\* C9: the block index handed to the parent is starting_block + start_block
\* modulo 2^32: when the true sum reaches 2^32 the read is still made, at a
\* block below both operands, and the index is the true sum exactly when
\* the true sum is below 2^32.
C9_AddressWraps ==
    (op = "mbr_read" /\ ReadDev.block_size = parent.block_size) =>
        LET a == rd.starting_block
            b == ReadDev.start_block
        IN  /\ calls # <<>>
            /\ LET c == calls[1].block
                   carry == IF a.lo + b.lo >= 65536 THEN 1 ELSE 0
               IN  /\ c.lo = (a.lo + b.lo) % 65536
                   /\ c.hi = (a.hi + b.hi + carry) % 65536
                   /\ Overflows(a, b) => Less32(c, a) /\ Less32(c, b)
                   /\ (c.hi = a.hi + b.hi + carry) <=> ~Overflows(a, b)

\* 0xFFFFFFFF + 0xFFFFF800 was sent to the parent as 0xFFFFF7FF
C9_Witness ==
    /\ op = "mbr_read"
    /\ calls # <<>>
    /\ rd.starting_block = W(65535, 65535)
    /\ ReadDev.start_block = W(65535, 63488)
    /\ calls[1].block = W(65535, 63487)

-----------------------------------------------------------------------------
(* C10 *)

\* C10: the buffer allocated for a device's name holds the parent's name,
\* the '_', the slot digit and the NUL: its size is at least L + 3 and no
\* byte is stored beyond it.
C10_NameBufferFits ==
    \A j \in 1..Len(made) :
        /\ made[j].name_alloc >= Len(parent.device_name) + 3
        /\ made[j].name_written <= made[j].name_alloc

====
